---- MODULE Spec2Model ----
(***************************************************************************)
(* Order-queue backend of src/app.py: a Flask application over one SQLite  *)
(* file with two tables, tokens and orders.  Each HTTP request is handled  *)
(* by a worker thread of the development server (app.run, threaded) on its *)
(* own sqlite3 connection (get_db).                                        *)
(*                                                                         *)
(* SQLite / sqlite3 semantics the model relies on:                         *)
(*  - a SELECT runs outside any transaction and reads the committed file;  *)
(*  - the first INSERT/DELETE of a connection implicitly BEGINs and takes  *)
(*    the single write lock; its changes stay private to the connection    *)
(*    until COMMIT (the connection context manager's exit) and are dropped *)
(*    by ROLLBACK (exit with an exception);                                *)
(*  - a connection that needs the write lock while another holds it waits  *)
(*    (busy handler); the waiting is a disabled guard here.                *)
(* The column orders.id (AUTOINCREMENT) is never read by the program; the  *)
(* orders table is a sequence in insertion (rowid) order.                  *)
(***************************************************************************)
EXTENDS Integers, Sequences, FiniteSets, TLC

\* ------------------------------------------------------------------ bounds
MaxRequests == 3            \* requests accepted over the whole run

\* ------------------------------------------------------- program constants
SentinelToken == 999        \* token_number of the 'SYSTEM' row
SentinelTime  == 0          \* '2000-01-01T00:00:00', before every clock value

\* ------------------------------------------------------------ input domains
Workers     == {"w1", "w2"}
NoWriter    == "none"
Absent      == "ABSENT"                 \* key missing from the JSON body
CustomerIds == {"", "c1"}
ItemNames   == {"tea", "coffee"}
Quantities  == {0 - 1, 0, 2}
PriceOf     == [n \in ItemNames |-> IF n = "tea" THEN 10 ELSE 20]

\* one entry of "items": name -> {quantity, price}; has_price = FALSE is an
\* entry without the 'price' key
Details ==
    { [item_name |-> n, quantity |-> q, price |-> PriceOf[n],
       has_price |-> TRUE] : <<n, q>> \in ItemNames \X Quantities }
    \cup { [item_name |-> n, quantity |-> 2, price |-> 0,
            has_price |-> FALSE] : n \in ItemNames }

\* a JSON object "items": keys are distinct; iteration is in document order,
\* and the client writes its menu in the order tea, coffee
ItemMaps ==
    {<<>>} \cup { <<d>> : d \in Details }
           \cup { <<d, e>> : <<d, e>> \in
                    { p \in Details \X Details :
                        p[1].item_name = "tea" /\ p[2].item_name = "coffee" } }

\* the JSON body of POST /generate_token; has_items = FALSE is a body without
\* the 'items' key, customer_id = Absent a body without the 'customer_id' key
Requests ==
    [customer_id : CustomerIds \cup {Absent}, has_items : {TRUE},
     items : ItemMaps]
    \cup [customer_id : CustomerIds \cup {Absent}, has_items : {FALSE},
          items : {<<>>}]

\* ------------------------------------------------------------ pure helpers
SeqToSet(s) == { s[i] : i \in DOMAIN s }

RECURSIVE SumAmounts(_)
SumAmounts(s) ==
    IF s = <<>> THEN 0 ELSE s[1].amount + SumAmounts(Tail(s))

SetMax(S) == CHOOSE m \in S : \A x \in S : x <= m

TokenNumbers(T) == { t.token_number : t \in T }

SentinelRow ==
    [token_number |-> SentinelToken, customer_id |-> "SYSTEM",
     timestamp |-> SentinelTime, total_amount |-> 0]

\* CREATE TABLE tokens (token_number INTEGER PRIMARY KEY, ...): inserting a
\* row whose key is already in the table fails
NoPrimaryKey(T, n) == FALSE                  \* variant: no key declared
PrimaryKeyConflict(T, n) == n \in TokenNumbers(T)

\* INSERT OR IGNORE INTO tokens ... VALUES (999, 'SYSTEM', ...)
InsertOrIgnoreNothing(T) == T                \* variant: the insert left out
InsertOrIgnoreSentinel(T) ==
    IF SentinelToken \in TokenNumbers(T) THEN T ELSE T \cup {SentinelRow}

\* SELECT MAX(token_number) FROM tokens ; (max_token or 999) + 1
NextTokenNumberSkips(T) == SetMax(TokenNumbers(T)) + 2     \* variant: + 2
NextTokenNumber(T) ==
    (IF T = {} \/ SetMax(TokenNumbers(T)) = 0
        THEN SentinelToken ELSE SetMax(TokenNumbers(T))) + 1

\* {k: v for k, v in data['items'].items() if v['quantity'] > 0}
ValidItemsNonNegative(items) == SelectSeq(items, LAMBDA d : d.quantity >= 0)
ValidItems(items) == SelectSeq(items, LAMBDA d : d.quantity > 0)

\* amount = quantity * price
AmountAdds(quantity, price) == quantity + price
Amount(quantity, price) == quantity * price

\* ------------------------------------------------------------------- state
VARIABLES
    up,          \* the process has run init_db and serves requests
    tokens,      \* committed rows of table tokens (token_number is the key)
    orders,      \* committed rows of table orders, in rowid order
    writer,      \* worker whose connection holds the write lock, or NoWriter
    txTokens,    \* tokens as the writer's open transaction sees it
    txOrders,    \* orders as the writer's open transaction sees it
    clock,       \* datetime.now(): value of the next reading (every
                 \*   reading is later than the one before)
    nreq,        \* requests received so far
    pc,          \* per worker: position in its handler
    loc,         \* per worker: the handler's local variables
    response,    \* the response sent by the last step, NoResponse if none
    issued,      \* history: token numbers answered with 200, in order,
                 \*          each with the epoch it was answered in
    placed,      \* history: the orders answered with 200 since the last
                 \*          committed clear_orders, in order
    epoch        \* history: number of committed clear_orders

vars == <<up, tokens, orders, writer, txTokens, txOrders, clock, nreq, pc,
          loc, response, issued, placed, epoch>>

NoLocals ==
    [data |-> [customer_id |-> Absent, has_items |-> FALSE,
                          items |-> <<>>],
     todo |-> <<>>, current_time |-> 0, token_number |-> 0,
     order_entries |-> <<>>, total_amount |-> 0]

NoResponse ==
    [op |-> "none", status |-> 0, error |-> "",
     data |-> NoLocals.data, token_number |-> 0, timestamp |-> 0,
     total |-> 0, items |-> <<>>, customer_id |-> "", queue |-> <<>>]

ErrorResponse(op, data, status, msg) ==
    [NoResponse EXCEPT !.op = op, !.data = data, !.status = status,
                       !.error = msg]

Init ==
    /\ up = FALSE
    /\ tokens = {}
    /\ orders = <<>>
    /\ writer = NoWriter
    /\ txTokens = {}
    /\ txOrders = <<>>
    /\ clock = 1
    /\ nreq = 0
    /\ pc = [w \in Workers |-> "idle"]
    /\ loc = [w \in Workers |-> NoLocals]
    /\ response = NoResponse
    /\ issued = <<>>
    /\ placed = <<>>
    /\ epoch = 0

AllIdle == \A w \in Workers : pc[w] = "idle"

\* init_db, run at import: the tables exist and the sentinel row is present
init_db ==
    /\ ~up
    /\ up' = TRUE
    /\ tokens' = InsertOrIgnoreSentinel(tokens)
    /\ txTokens' = InsertOrIgnoreSentinel(tokens)
    /\ response' = NoResponse
    /\ UNCHANGED <<orders, writer, txOrders, clock, nreq, pc, loc, issued,
                   placed,                   epoch>>

\* the process stops between requests (a later start runs init_db again)
Stop ==
    /\ up
    /\ AllIdle
    /\ up' = FALSE
    /\ response' = NoResponse
    /\ UNCHANGED <<tokens, orders, writer, txTokens, txOrders, clock, nreq,
                   pc, loc, issued, placed, epoch>>

\* ------------------------------------------------- POST /generate_token
\* `if not data or 'items' not in data or 'customer_id' not in data`
InvalidOrderData(data) ==
    (~data.has_items) \/ (data.customer_id = Absent)

\* request.get_json(), validation, filtering, current_time = datetime.now()
RecvGenerateToken(w) ==
    /\ up
    /\ pc[w] = "idle"
    /\ nreq < MaxRequests
    /\ nreq' = nreq + 1
    /\ \E data \in Requests :
         IF InvalidOrderData(data)
         THEN /\ response' = ErrorResponse("generate_token", data,
                                           400, "Invalid order data")
              /\ UNCHANGED <<pc, loc, clock>>
         ELSE IF ValidItems(data.items) = <<>>
         THEN /\ response' = ErrorResponse("generate_token", data,
                                           400, "No items in order")
              /\ UNCHANGED <<pc, loc, clock>>
         ELSE /\ loc' = [loc EXCEPT ![w] =
                           [NoLocals EXCEPT !.data = data,
                                            !.todo = ValidItems(data.items),
                                            !.current_time = clock]]
              /\ clock' = clock + 1
              /\ pc' = [pc EXCEPT ![w] = "select_max"]
              /\ response' = NoResponse
    /\ UNCHANGED <<up, tokens, orders, writer, txTokens, txOrders, issued,
                   placed,                   epoch>>

\* cursor.execute("SELECT MAX(token_number) FROM tokens"): reads the
\* committed table; no transaction is open yet
SelectMax(w) ==
    /\ pc[w] = "select_max"
    /\ loc' = [loc EXCEPT ![w].token_number = NextTokenNumber(tokens)]
    /\ pc' = [pc EXCEPT ![w] = "insert_order"]
    /\ response' = NoResponse
    /\ UNCHANGED <<up, tokens, orders, writer, txTokens, txOrders, clock,
                   nreq, issued, placed, epoch>>

\* the row of one INSERT INTO orders
OrderRow(l, d) ==
    [token_number |-> l.token_number, customer_id |-> l.data.customer_id,
     item_name |-> d.item_name, quantity |-> d.quantity, price |-> d.price,
     amount |-> Amount(d.quantity, d.price), timestamp |-> l.current_time]

\* the entry appended to order_entries
OrderEntry(d) ==
    [item_name |-> d.item_name, quantity |-> d.quantity, price |-> d.price,
     amount |-> Amount(d.quantity, d.price)]

\* the exception path of `with get_db() as conn`: ROLLBACK, then the
\* handler's `except` answers 500
\* ROLLBACK: the connection's view of a table falls back to the committed
\* rows, the pending ones are dropped
NotRolledBack(committed, pending) == pending   \* variant: rows left pending
RolledBack(committed, pending) == committed

Rollback(w, msg) ==
    /\ writer' = IF writer = w THEN NoWriter ELSE writer
    /\ txTokens' = IF writer = w THEN RolledBack(tokens, txTokens)
                                 ELSE txTokens
    /\ txOrders' = IF writer = w THEN RolledBack(orders, txOrders)
                                 ELSE txOrders
    /\ response' = ErrorResponse("generate_token", loc[w].data,
                                 500, msg)
    /\ pc' = [pc EXCEPT ![w] = "idle"]
    /\ loc' = [loc EXCEPT ![w] = NoLocals]

\* one iteration of `for item_name, details in valid_items.items()`.  A
\* missing 'price' raises KeyError before the INSERT; the INSERT needs the
\* write lock (taken by the first one)
InsertOrder(w) ==
    /\ pc[w] = "insert_order"
    /\ LET d == Head(loc[w].todo) IN
         IF ~d.has_price
         THEN Rollback(w, "KeyError: price")
         ELSE /\ writer \in {NoWriter, w}
              /\ writer' = w
              /\ txOrders' = Append(txOrders, OrderRow(loc[w], d))
              /\ loc' = [loc EXCEPT
                           ![w].todo = Tail(@),
                           ![w].order_entries = Append(@, OrderEntry(d)),
                           ![w].total_amount = @ + Amount(d.quantity, d.price)]
              /\ pc' = [pc EXCEPT ![w] =
                          IF Tail(loc[w].todo) = <<>> THEN "insert_token"
                                                      ELSE "insert_order"]
              /\ response' = NoResponse
              /\ UNCHANGED txTokens
    /\ UNCHANGED <<up, tokens, orders, clock, nreq, issued, placed, epoch>>

\* the row of INSERT INTO tokens
TokenRow(l) ==
    [token_number |-> l.token_number, customer_id |-> l.data.customer_id,
     timestamp |-> l.current_time, total_amount |-> l.total_amount]

\* INSERT INTO tokens: token_number is the PRIMARY KEY, a duplicate raises
\* sqlite3.IntegrityError
InsertToken(w) ==
    /\ pc[w] = "insert_token"
    /\ writer = w
    /\ IF PrimaryKeyConflict(txTokens, loc[w].token_number)
       THEN Rollback(w, "UNIQUE constraint failed: tokens.token_number")
       ELSE /\ txTokens' = txTokens \cup {TokenRow(loc[w])}
            /\ pc' = [pc EXCEPT ![w] = "commit"]
            /\ response' = NoResponse
            /\ UNCHANGED <<writer, txOrders, loc>>
    /\ UNCHANGED <<up, tokens, orders, clock, nreq, issued, placed, epoch>>

\* leaving `with get_db() as conn` through `return`: COMMIT, then 200
SuccessResponse(l) ==
    [NoResponse EXCEPT !.op = "generate_token",
                       !.data = l.data, !.status = 200,
                       !.token_number = l.token_number,
                       !.timestamp = l.current_time,
                       !.total = l.total_amount,
                       !.items = l.order_entries,
                       !.customer_id = l.data.customer_id]

CommitOrder(w) ==
    /\ pc[w] = "commit"
    /\ writer = w
    /\ tokens' = txTokens
    /\ orders' = txOrders
    /\ writer' = NoWriter
    /\ response' = SuccessResponse(loc[w])
    /\ issued' = Append(issued, [token_number |-> loc[w].token_number,
                                 epoch |-> epoch])
    /\ placed' = Append(placed, [token_number |-> loc[w].token_number,
                                 customer_id |-> loc[w].data.customer_id,
                                 items |-> loc[w].order_entries])
    /\ pc' = [pc EXCEPT ![w] = "idle"]
    /\ loc' = [loc EXCEPT ![w] = NoLocals]
    /\ UNCHANGED <<up, txTokens, txOrders, clock, nreq, epoch>>

\* ------------------------------------------------------------ GET /queue
\* SELECT ... FROM tokens t JOIN orders o ON t.token_number = o.token_number
\* (JoinedRow: one row of the result; CrossJoinRows: variant without ON)
JoinedRow(t, O, i) ==
    [token_number |-> t.token_number, customer_id |-> t.customer_id,
     timestamp |-> t.timestamp, total_amount |-> t.total_amount,
     item_name |-> O[i].item_name, quantity |-> O[i].quantity,
     price |-> O[i].price, rowid |-> i]
CrossJoinRows(T, O) ==
    { JoinedRow(p[1], O, p[2]) : p \in T \X DOMAIN O }
JoinRows(T, O) ==
    { JoinedRow(p[1], O, p[2]) :
      p \in { q \in T \X DOMAIN O :
                q[1].token_number = O[q[2]].token_number } }

\* ORDER BY t.timestamp DESC: every listing of the rows in which timestamps
\* never increase (SQL leaves the order of equal timestamps open)
RECURSIVE OrderByTimestampDesc(_)
OrderByTimestampDesc(R) ==
    IF R = {} THEN {<<>>}
    ELSE UNION { { <<r>> \o s : s \in OrderByTimestampDesc(R \ {r}) } :
                 r \in { x \in R : \A y \in R : y.timestamp <= x.timestamp } }

QueueItem(r) ==
    [item_name |-> r.item_name, quantity |-> r.quantity, price |-> r.price]

\* index of the entry of token n in the list q, 0 when there is none
EntryIndex(q, n) ==
    IF \E i \in DOMAIN q : q[i].token_number = n
    THEN CHOOSE i \in DOMAIN q : q[i].token_number = n
    ELSE 0

\* the loop `for order in orders` over unique_orders (a dict: entries stay
\* in the order of their first row), then list(unique_orders.values())
RECURSIVE GroupByTokenFrom(_, _)
GroupByTokenFrom(q, rows) ==
    IF rows = <<>> THEN q
    ELSE LET r == Head(rows)
             k == EntryIndex(q, r.token_number)
         IN IF k = 0
            THEN GroupByTokenFrom(
                   Append(q, [token_number |-> r.token_number,
                              customer_id |-> r.customer_id,
                              timestamp |-> r.timestamp,
                              total |-> r.total_amount,
                              items |-> <<QueueItem(r)>>]),
                   Tail(rows))
            ELSE GroupByTokenFrom(
                   [q EXCEPT ![k].items = Append(@, QueueItem(r))],
                   Tail(rows))

\* variant: the `else` branch left out, later rows of a token are dropped
GroupFirstRowOnly(rows) ==
    GroupByTokenFrom(<<>>,
        SelectSeq(rows, LAMBDA r :
            \A x \in SeqToSet(rows) :
                x.token_number = r.token_number => r.rowid <= x.rowid))
GroupByToken(rows) == GroupByTokenFrom(<<>>, rows)

\* the queues get_queue can answer with on committed tables T, O
Queues(T, O) ==
    { GroupByToken(rows) : rows \in OrderByTimestampDesc(JoinRows(T, O)) }

\* one SELECT and fetchall(): an atomic read of the committed tables
get_queue(w) ==
    /\ up
    /\ pc[w] = "idle"
    /\ nreq < MaxRequests
    /\ nreq' = nreq + 1
    /\ \E q \in Queues(tokens, orders) :
         response' = [NoResponse EXCEPT !.op = "queue", !.status = 200,
                                        !.queue = q]
    /\ UNCHANGED <<up, tokens, orders, writer, txTokens, txOrders, clock, pc,
                   loc, issued, placed, epoch>>

\* ---------------------------------------------------- POST /clear_orders
\* conn.execute("DELETE FROM orders"): opens the transaction
DeleteOrders(w) ==
    /\ up
    /\ pc[w] = "idle"
    /\ nreq < MaxRequests
    /\ writer = NoWriter
    /\ nreq' = nreq + 1
    /\ writer' = w
    /\ txOrders' = <<>>
    /\ pc' = [pc EXCEPT ![w] = "delete_tokens"]
    /\ response' = NoResponse
    /\ UNCHANGED <<up, tokens, orders, txTokens, clock, loc, issued, placed,
                   epoch>>

\* conn.execute("DELETE FROM tokens")
DeleteTokens(w) ==
    /\ pc[w] = "delete_tokens"
    /\ writer = w
    /\ txTokens' = {}
    /\ pc' = [pc EXCEPT ![w] = "insert_sentinel"]
    /\ response' = NoResponse
    /\ UNCHANGED <<up, tokens, orders, writer, txOrders, clock, nreq, loc,
                   issued, placed, epoch>>

\* conn.execute("INSERT OR IGNORE INTO tokens ... VALUES (999, 'SYSTEM', ...)")
InsertSentinel(w) ==
    /\ pc[w] = "insert_sentinel"
    /\ writer = w
    /\ txTokens' = InsertOrIgnoreSentinel(txTokens)
    /\ pc' = [pc EXCEPT ![w] = "commit_clear"]
    /\ response' = NoResponse
    /\ UNCHANGED <<up, tokens, orders, writer, txOrders, clock, nreq, loc,
                   issued, placed, epoch>>

\* leaving `with conn`: COMMIT, then {"status": "success", ...}
CommitClear(w) ==
    /\ pc[w] = "commit_clear"
    /\ writer = w
    /\ tokens' = txTokens
    /\ orders' = txOrders
    /\ writer' = NoWriter
    /\ response' = [NoResponse EXCEPT !.op = "clear_orders",
                                      !.status = 200]
    /\ epoch' = epoch + 1
    /\ placed' = <<>>
    /\ pc' = [pc EXCEPT ![w] = "idle"]
    /\ loc' = [loc EXCEPT ![w] = NoLocals]
    /\ UNCHANGED <<up, txTokens, txOrders, clock, nreq, issued>>

\* ------------------------------------------------------- specifications
Next ==
    \/ init_db
    \/ Stop
    \/ \E w \in Workers : RecvGenerateToken(w)
    \/ \E w \in Workers : SelectMax(w)
    \/ \E w \in Workers : InsertOrder(w)
    \/ \E w \in Workers : InsertToken(w)
    \/ \E w \in Workers : CommitOrder(w)
    \/ \E w \in Workers : get_queue(w)
    \/ \E w \in Workers : DeleteOrders(w)
    \/ \E w \in Workers : DeleteTokens(w)
    \/ \E w \in Workers : InsertSentinel(w)
    \/ \E w \in Workers : CommitClear(w)

Spec == Init /\ [][Next]_vars

\* requests handled one at a time: a request is taken up only when no other
\* is being handled
SeqNext ==
    \/ init_db
    \/ Stop
    \/ \E w \in Workers : AllIdle /\ RecvGenerateToken(w)
    \/ \E w \in Workers : SelectMax(w)
    \/ \E w \in Workers : InsertOrder(w)
    \/ \E w \in Workers : InsertToken(w)
    \/ \E w \in Workers : CommitOrder(w)
    \/ \E w \in Workers : AllIdle /\ get_queue(w)
    \/ \E w \in Workers : AllIdle /\ DeleteOrders(w)
    \/ \E w \in Workers : DeleteTokens(w)
    \/ \E w \in Workers : InsertSentinel(w)
    \/ \E w \in Workers : CommitClear(w)

SeqSpec == Init /\ [][SeqNext]_vars

\* ================================================================ claims
\* C1: with requests handled one at a time, the token numbers of successive
\* successful orders with no clear between them are strictly increasing, and
\* the first successful order on a new store or after a clear gets 1000.
C1_MonotonicFrom1000 ==
    /\ \A i, j \in DOMAIN issued :
         (i < j /\ issued[i].epoch = issued[j].epoch)
             => issued[i].token_number < issued[j].token_number
    /\ \A i \in DOMAIN issued :
         (\A j \in 1 .. (i - 1) : issued[j].epoch # issued[i].epoch)
             => issued[i].token_number = 1000

C1_Witness ==
    /\ Len(issued) = 2
    /\ issued[1].epoch = issued[2].epoch
    /\ issued[2].token_number = 1001

\* C2: in runs of concurrent orders without a clear, no two successful
\* orders are assigned the same token number.
C2_ConcurrentOrdersDistinct ==
    epoch = 0 =>
        \A i, j \in DOMAIN issued :
            i # j => issued[i].token_number # issued[j].token_number

\* one order was answered with the number another request, which read the
\* same maximum, still holds
C2_Witness ==
    /\ epoch = 0
    /\ \E w \in Workers : \E i \in DOMAIN issued :
         /\ pc[w] = "insert_token"
         /\ loc[w].token_number = issued[i].token_number

\* C3 as stated: a token number is never issued twice over the lifetime of
\* the store, clears included.
C3_NeverReissued ==
    \A i, j \in DOMAIN issued :
        i # j => issued[i].token_number # issued[j].token_number

\* C3 as amended: two successful orders get the same token number only if a
\* clear was committed between them.
C3_ReissuedOnlyAcrossClear ==
    \A i, j \in DOMAIN issued :
        (i # j /\ issued[i].token_number = issued[j].token_number)
            => issued[i].epoch # issued[j].epoch

C3_Witness ==
    /\ Len(issued) = 2
    /\ issued[1].epoch < issued[2].epoch
    /\ issued[1].token_number = issued[2].token_number

\* what a request asks for, read off its body
Positive(items) == SelectSeq(items, LAMBDA d : d.quantity > 0)
AllNonPositive(items) == \A i \in DOMAIN items : items[i].quantity <= 0
Line(d) ==
    [item_name |-> d.item_name, quantity |-> d.quantity, price |-> d.price]
Lines(s) == [i \in DOMAIN s |-> Line(s[i])]
RECURSIVE SumQtyPrice(_)
SumQtyPrice(s) ==
    IF s = <<>> THEN 0
    ELSE s[1].quantity * s[1].price + SumQtyPrice(Tail(s))

OrderAnswered == response.op = "generate_token" /\ response.status = 200
RowsOfToken(O, n) == SelectSeq(O, LAMBDA r : r.token_number = n)
TokenRowsOf(T, n) == { t \in T : t.token_number = n }

\* C4: an item with quantity 0 or less is never written to orders (committed
\* or not), is not in the response's items and adds nothing to the returned
\* or stored total; every item with quantity > 0 of a successful order is
\* in the response and in the table.
C4_OnlyPositiveQuantities ==
    /\ \A i \in DOMAIN orders : orders[i].quantity > 0
    /\ \A i \in DOMAIN txOrders : txOrders[i].quantity > 0
    /\ OrderAnswered =>
         /\ Lines(response.items) = Lines(Positive(response.data.items))
         /\ Lines(RowsOfToken(orders, response.token_number))
                = Lines(Positive(response.data.items))
         /\ response.total = SumQtyPrice(Positive(response.data.items))
         /\ \A t \in TokenRowsOf(tokens, response.token_number) :
                t.total_amount = SumQtyPrice(Positive(response.data.items))

C4_Witness ==
    /\ OrderAnswered
    /\ Len(response.data.items) = 2
    /\ response.data.items[1].quantity > 0
    /\ response.data.items[2].quantity < 0

\* C5: in a successful order every returned line has amount = quantity *
\* price, and the returned total and the stored total_amount are the sum of
\* the amounts of the returned lines.
C5_AmountsAndTotal ==
    OrderAnswered =>
        /\ \A i \in DOMAIN response.items :
               response.items[i].amount
                   = response.items[i].quantity * response.items[i].price
        /\ response.total = SumAmounts(response.items)
        /\ \E t \in tokens :
               /\ t.token_number = response.token_number
               /\ t.total_amount = SumAmounts(response.items)
        /\ \A i \in DOMAIN orders :
               orders[i].amount = orders[i].quantity * orders[i].price

C5_Witness ==
    /\ OrderAnswered
    /\ Len(response.items) = 2
    /\ response.total = 60

\* C6: an order whose items are empty or all of quantity 0 or less is
\* answered 400 and changes neither table, so the queue and the next token
\* number stay what they were.
C6_EmptyOrderRejected ==
    [][ (/\ response'.op = "generate_token"
         /\ response'.data.has_items
         /\ AllNonPositive(response'.data.items))
        => (/\ response'.status = 400
            /\ tokens' = tokens /\ orders' = orders
            /\ txTokens' = txTokens /\ txOrders' = txOrders
            /\ Queues(tokens', orders') = Queues(tokens, orders)
            /\ NextTokenNumber(tokens') = NextTokenNumber(tokens)) ]_vars

C6_Witness ==
    /\ response.op = "generate_token"
    /\ response.status = 400
    /\ response.data.customer_id = "c1"
    /\ Len(response.data.items) = 2
    /\ AllNonPositive(response.data.items)
    /\ Len(orders) > 0

\* C7 as stated: an order without customer id, with the empty string as
\* customer id, or without items is answered 400, is assigned no token and
\* persists nothing (taken over bodies whose items all carry a price, so
\* that no other error is in play).
WellFormed(items) == \A i \in DOMAIN items : items[i].has_price
C7_BadCustomerOrItemsRejected ==
    /\ (/\ response.op = "generate_token"
        /\ WellFormed(response.data.items)
        /\ (\/ response.data.customer_id \in {Absent, ""}
            \/ ~response.data.has_items))
       => (response.status = 400 /\ response.token_number = 0)
    /\ \A t \in tokens : t.customer_id # ""
    /\ \A i \in DOMAIN orders : orders[i].customer_id # ""

\* C8: with requests handled one at a time, the queue has exactly one entry
\* per order placed since the last clear and no other; the entry carries the
\* order's customer id, exactly its accepted lines, and a total equal to the
\* sum of quantity * price over them.
C8_QueueIsWhatWasPlaced ==
    response.op = "queue" =>
        /\ Len(response.queue) = Len(placed)
        /\ \A i \in DOMAIN placed :
             \E k \in DOMAIN response.queue :
                LET e == response.queue[k] IN
                /\ e.token_number = placed[i].token_number
                /\ \A m \in DOMAIN response.queue :
                       response.queue[m].token_number = e.token_number
                           => m = k
                /\ e.customer_id = placed[i].customer_id
                /\ Len(e.items) = Len(placed[i].items)
                /\ SeqToSet(e.items) = SeqToSet(Lines(placed[i].items))
                /\ e.total = SumQtyPrice(e.items)

C8_Witness ==
    /\ response.op = "queue"
    /\ Len(response.queue) = 2
    /\ Len(response.queue[1].items) = 2
    /\ response.queue[1].customer_id # response.queue[2].customer_id

\* C9 as stated: the queue lists its entries in descending token_number
\* order, the order placed later first.
C9_QueueNewestFirst ==
    response.op = "queue" =>
        \A i, j \in DOMAIN response.queue :
            i < j => response.queue[i].token_number
                         > response.queue[j].token_number

C11_FailedOrderPersistsNothing ==
    [][ (response'.op = "generate_token" /\ response'.status # 200)
        => (/\ tokens' = tokens
            /\ orders' = orders
            /\ NextTokenNumber(tokens') = NextTokenNumber(tokens)
            /\ (writer' = NoWriter
                  => (txTokens' = tokens' /\ txOrders' = orders'))) ]_vars

\* a primary-key conflict on the Token row, after the order's lines were
\* inserted
C11_Witness ==
    /\ response.op = "generate_token"
    /\ response.status = 500
    /\ response.error = "UNIQUE constraint failed: tokens.token_number"
    /\ Len(response.data.items) = 2
    /\ Len(orders) > 0

InOrderTx(w) == pc[w] \in {"insert_order", "insert_token", "commit"}

\* C12 as stated: the read of the maximum and the insert of the Token row
\* are one atomic unit: while a request holds a number it has read and has
\* not yet inserted its Token row, the committed tokens table is as it was
\* read, and no two requests hold the same number.
C12_ReadAndInsertAtomic ==
    /\ \A w \in Workers :
         pc[w] \in {"insert_order", "insert_token"}
             => loc[w].token_number = SetMax(TokenNumbers(tokens)) + 1
    /\ \A v, w \in Workers :
         (v # w /\ InOrderTx(v) /\ InOrderTx(w))
             => loc[v].token_number # loc[w].token_number

\* C13: once init_db has run, the committed tokens table holds the sentinel
\* row (999, SYSTEM, total 0) and no other row numbered 999, every other
\* token number is at least 1000, no order line carries 999, and no queue
\* entry is the sentinel.
C13_SentinelAlwaysThere ==
    up =>
        /\ \E t \in tokens :
             /\ t.token_number = 999
             /\ t.customer_id = "SYSTEM"
             /\ t.total_amount = 0
        /\ Cardinality({ t \in tokens : t.token_number = 999 }) = 1
        /\ \A t \in tokens : t.token_number # 999 => t.token_number >= 1000
        /\ \A i \in DOMAIN orders : orders[i].token_number # 999
        /\ \A k \in DOMAIN response.queue :
             response.queue[k].token_number # 999

\* an order placed after a clear, next to the re-inserted sentinel
C13_Witness ==
    /\ up
    /\ epoch = 1
    /\ Cardinality(tokens) = 2
    /\ Len(orders) > 0

\* C14: in every committed state each order line's token_number is the
\* number of exactly one Token row, and every Token row but the sentinel
\* has at least one order line.
C14_LinesAndTokensTogether ==
    /\ \A i \in DOMAIN orders :
         Cardinality({ t \in tokens :
                         t.token_number = orders[i].token_number }) = 1
    /\ \A t \in tokens :
         t.token_number # 999
             => \E i \in DOMAIN orders :
                    orders[i].token_number = t.token_number

\* two orders committed while a third writes rows not yet visible
C14_Witness ==
    /\ Cardinality(tokens) = 3
    /\ writer # NoWriter
    /\ Len(txOrders) > Len(orders)
    /\ txTokens = tokens

IsPrefix(s, t) ==
    /\ Len(s) <= Len(t)
    /\ \A i \in DOMAIN s : s[i] = t[i]

\* C15: in every committed state a Token row's total_amount is the sum of
\* the amounts of its order lines and a line's amount is quantity * price;
\* a step either keeps every existing row (adding rows at most) or is a
\* clear that deletes all rows and leaves the sentinel.
C15_TotalsMatchAndRowsImmutable ==
    [][ /\ \A t \in tokens' :
             t.total_amount
                 = SumAmounts(RowsOfToken(orders', t.token_number))
        /\ \A i \in DOMAIN orders' :
             orders'[i].amount = orders'[i].quantity * orders'[i].price
        /\ IF response'.op = "clear_orders"
           THEN orders' = <<>> /\ tokens' = {SentinelRow}
           ELSE IsPrefix(orders, orders') /\ tokens \subseteq tokens'
      ]_vars

\* an order of two lines, stored with its total
C15_Witness ==
    /\ \E t \in tokens : t.total_amount = 60
    /\ Len(orders) >= 2
    /\ response.op = "queue"

\* C16: init_db changes no row of a store that holds the sentinel (the next
\* token number stays), adds exactly the sentinel row to a store without
\* row 999, and run again on its own result changes nothing.
C16_InitIdempotent ==
    [][ (~up /\ up')
        => (/\ orders' = orders
            /\ (999 \in TokenNumbers(tokens)
                  => (/\ tokens' = tokens
                      /\ NextTokenNumber(tokens') = NextTokenNumber(tokens)))
            /\ (999 \notin TokenNumbers(tokens)
                  => (/\ tokens' \ tokens = {SentinelRow}
                      /\ tokens \subseteq tokens'))
            /\ InsertOrIgnoreSentinel(tokens') = tokens') ]_vars

\* the process has been started again on a store that holds orders
C16_Witness ==
    /\ up
    /\ AllIdle
    /\ response = NoResponse
    /\ Cardinality(tokens) >= 2
    /\ Len(orders) > 0

\* C17: under every interleaving a queue answer holds only committed orders,
\* each with all the lines committed for its token and a total equal to the
\* sum of quantity * price over the returned lines, and answering it changes
\* no row, committed or pending.
C17_QueueSeesWholeOrders ==
    [][ response'.op = "queue"
        => (/\ \A k \in DOMAIN response'.queue :
                 LET e == response'.queue[k] IN
                 /\ \E i \in DOMAIN placed :
                      /\ placed[i].token_number = e.token_number
                      /\ Len(e.items) = Len(placed[i].items)
                      /\ SeqToSet(e.items) = SeqToSet(Lines(placed[i].items))
                 /\ e.total = SumQtyPrice(e.items)
            /\ tokens' = tokens /\ orders' = orders
            /\ txTokens' = txTokens /\ txOrders' = txOrders
            /\ writer' = writer) ]_vars

\* a queue answered while another request has written rows not yet
\* committed
C17_Witness ==
    /\ response.op = "queue"
    /\ Len(response.queue) = 1
    /\ Len(response.queue[1].items) = 2
    /\ writer # NoWriter
    /\ Len(txOrders) > Len(orders)

====
